---- MODULE Spec2Model ----
(***************************************************************************)
(* Model of cherry_pick_all_branches.py: the run controller (main), the    *)
(* per-branch replay (cherry_pick_commits), the manual-resolution loop     *)
(* (wait_for_resolution), the two artifact passes (handle_conflicted_pdfs, *)
(* handle_tex_files) and the run-state store (save_state, load_state,      *)
(* cleanup_state), over a small model of the git working copy.             *)
(***************************************************************************)
EXTENDS Integers, Sequences, FiniteSets, TLC

(* ------------------------------ bounds -------------------------------- *)
MaxBranches == 2   \* local branches besides the one checked out at first
MaxStarts == 2     \* invocations of the tool within one behaviour
MaxN == 3          \* largest value given to -n

(* ------------------------- values and helpers ------------------------- *)
PyNone == "<None>"

Range(s) == {s[i] : i \in 1..Len(s)}

Min(a, b) == IF a < b THEN a ELSE b

Front(s) == SubSeq(s, 1, Len(s) - 1)

SelectNot(s, x) == SelectSeq(s, LAMBDA e : e # x)

BranchPool == <<"b1", "b2", "b3", "b4">>

\* output of `git branch --format=%(refname:short)`, alphabetical
GitBranchList == SubSeq(BranchPool, 1, MaxBranches) \o <<"main">>

BranchNames == Range(GitBranchList)

\* the history of the branch the tool is started on, oldest first
History ==
    << [hash |-> "h1", subject |-> "s1", body |-> "d1"],
       [hash |-> "h2", subject |-> "s2", body |-> "d2"] >>

\* paths of the working copy: a derived artifact, its source, a plain file
Paths ==
    { [base |-> "a", ext |-> "pdf"],
      [base |-> "a", ext |-> "tex"],
      [base |-> "t", ext |-> "txt"] }

\* None where a path is expected
NoPath == [base |-> "", ext |-> ""]

PathOrder(p) == IF p.ext = "pdf" THEN 1 ELSE IF p.ext = "tex" THEN 2 ELSE 3

RECURSIVE SortedPaths(_)
\* git prints paths in a fixed (alphabetical) order
SortedPaths(S) ==
    IF S = {} THEN <<>>
    ELSE LET p == CHOOSE q \in S : \A r \in S : PathOrder(q) <= PathOrder(r)
         IN <<p>> \o SortedPaths(S \ {p})

\* exclusion patterns given on the command line: none, an exact name, a name
\* that matches nothing followed by a '?' pattern, a pattern with a class and
\* a '*'
ExcludeChoices == {<<>>, <<"b1">>, <<"zz", "?1">>, <<"[bx]*">>}

\* the characters of the branch names and patterns in use
Chars(s) ==
    CASE s = "b1" -> <<"b", "1">>
      [] s = "b2" -> <<"b", "2">>
      [] s = "b3" -> <<"b", "3">>
      [] s = "b4" -> <<"b", "4">>
      [] s = "main" -> <<"m", "a", "i", "n">>
      [] s = "zz" -> <<"z", "z">>
      [] s = "?1" -> <<"?", "1">>
      [] s = "[bx]*" -> <<"[", "b", "x", "]", "*">>
      [] OTHER -> <<>>

\* Python's `a in b` for two strings
IsSubstr(a, b) ==
    \E i \in 0..(Len(b) - Len(a)) : SubSeq(b, i + 1, i + Len(a)) = a

\* index of the "]" that closes a class opened at p[1], 0 when there is none
ClassEnd(p) ==
    IF \E j \in 3..Len(p) : p[j] = "]"
    THEN CHOOSE j \in 3..Len(p) : p[j] = "]" /\ \A k \in 3..(j - 1) : p[k] # "]"
    ELSE 0

\* a character against the inside of a class, "!" first negates
InClass(ch, cls) ==
    IF cls # <<>> /\ Head(cls) = "!"
    THEN ch \notin Range(Tail(cls))
    ELSE ch \in Range(cls)

RECURSIVE FnMatch(_, _)
\* fnmatch.fnmatch on the characters of a name and of a pattern: the whole
\* name has to match
FnMatch(s, p) ==
    IF p = <<>> THEN s = <<>>
    ELSE IF Head(p) = "*"
    THEN FnMatch(s, Tail(p)) \/ (s # <<>> /\ FnMatch(Tail(s), p))
    ELSE IF s = <<>> THEN FALSE
    ELSE IF Head(p) = "?" THEN FnMatch(Tail(s), Tail(p))
    ELSE IF Head(p) = "[" /\ ClassEnd(p) # 0
    THEN /\ InClass(Head(s), SubSeq(p, 2, ClassEnd(p) - 1))
         /\ FnMatch(Tail(s), SubSeq(p, ClassEnd(p) + 1, Len(p)))
    ELSE Head(s) = Head(p) /\ FnMatch(Tail(s), Tail(p))

\* get_all_branches, line 127: does the pattern hold a wildcard character
HasWildcard(pattern) ==
    \E i \in 1..Len(Chars(pattern)) : Chars(pattern)[i] \in {"*", "?", "["}

(* ------------------------------ variables ----------------------------- *)
VARIABLES
    pc,               \* position of the running process, "off" when none runs
    args,             \* parsed command line (read only before the loop)
    state,            \* main: the loaded state, <<>> for None
    commits,          \* main: the change set, oldest first
    original_branch,  \* main
    branches,         \* main: the branch queue
    failed_branches,  \* main
    processed, skipped, failed,   \* main: the three counters
    branch,           \* main: loop variable
    result,           \* return value of cherry_pick_commits
    wfrRet,           \* return value of wait_for_resolution
    exitStatus,       \* process exit status, -1 while running
    exitKind,         \* why the process ended
    hcpCaller, hcpTodo, hcpSet, hcpRet,   \* frame of handle_conflicted_pdfs
    htfCaller, htfTodo, htfPdf, htfRet,   \* frame of handle_tex_files
    stateFile,        \* the state file: <<>> when absent, <<json>> otherwise
    gitHead,          \* checked-out branch
    cpInProgress,     \* CHERRY_PICK_HEAD exists
    unresolved,       \* paths with status U
    starts,           \* history: invocations so far
    initQueue,        \* history: the queue this process entered its loop with
    attempted,        \* history: branches given to cherry_pick_commits
    poppedEver,       \* history: branches popped since the run was planned
    savedRun,         \* history: the run state save_state was last given
    someFailed,       \* history: a branch ended failed in this process
    manualAborted,    \* history: last branch aborted at the manual prompt
    restoreOk,        \* history: outcome of the final checkout
    lastReplay,       \* history: last replay / replay-continue of this attempt
    abortInvoked,     \* history: cherry-pick --abort was issued in this attempt
    hardAbort,        \* history: reconciler answered 'abort' in this attempt
    reconAfterAbort,  \* history: reconciliation ran again after a hard abort
    hcpTex,           \* handle_conflicted_pdfs: tex_path of the current artifact
    hcpLeft,          \* history: the answer that left the previous artifact
    reach,            \* history: what the reachability query of this attempt saw
    reconStarted,     \* history: an artifact pass was entered in this attempt
    texPass,          \* history: handle_tex_files after a clean replay
    ckFailed,         \* history: last branch whose checkout failed
    outcomes,         \* history: terminal outcome of each popped branch
    loadedFailed,     \* history: failed list this process took from the file
    warned,           \* main, line 662: the "Only k commit(s) available" warning
    inFlight,         \* history: a replay was in flight on the branch at checkout
    pdfStaged,        \* history: the reconciler staged an artifact in this attempt
    prompted,         \* history: the manual prompt was issued in this attempt
    wfrAns,           \* history: the answer the manual prompt has just been given
    htfAns,           \* handle_tex_files: review answer to the artifact as compiled
    htfStagedOn,      \* history: the review answer the staged artifact had got
    lastArgs,         \* history: arguments of the replay invoked in this attempt
    quiet             \* history: wait_for_resolution iterations begun since
                      \* the human last gave input

memVars == <<args, state, commits, original_branch, branches, failed_branches,
             processed, skipped, failed, branch, result, wfrRet>>
exitVars == <<exitStatus, exitKind>>
hcpMore == <<hcpTex, hcpLeft>>
hcpVars == <<hcpCaller, hcpTodo, hcpSet, hcpRet, hcpMore>>
htfMore == <<htfAns, htfStagedOn>>
htfVars == <<htfCaller, htfTodo, htfPdf, htfRet, htfMore>>
gitVars == <<gitHead, cpInProgress, unresolved>>
runMore == <<ckFailed, outcomes, loadedFailed, warned>>
runHist == <<starts, initQueue, attempted, poppedEver, someFailed, manualAborted,
             restoreOk, runMore>>
attMore == <<reach, reconStarted, texPass, inFlight, pdfStaged, prompted>>
attRest == <<lastReplay, abortInvoked, hardAbort, reconAfterAbort, attMore>>
attHist == <<attRest, wfrAns, lastArgs, quiet>>

vars == <<pc, memVars, exitVars, hcpVars, htfVars, stateFile, gitVars, runHist,
          attHist, savedRun>>

(* --------------------------- run-state store -------------------------- *)
JNull == <<"null">>

JStr(s) == <<"str", s>>

\* json.dump of a str-or-None value
JsonOfOpt(v) == IF v = PyNone THEN JNull ELSE JStr(v)

\* json.load of a string-or-null value
OptOfJson(j) == IF j[1] = "null" THEN PyNone ELSE j[2]

JsonOfSeq(s) == [i \in 1..Len(s) |-> JStr(s[i])]

SeqOfJson(j) == [i \in 1..Len(j) |-> j[i][2]]

\* mutant: the extended description is not written
CommitsDataNoBody(cs) ==
    [i \in 1..Len(cs) |->
        [hash |-> cs[i].hash, subject |-> cs[i].subject, body |-> ""]]

\* save_state, lines 375-378
CommitsData(cs) ==
    [i \in 1..Len(cs) |->
        [hash |-> cs[i].hash, subject |-> cs[i].subject,
         body |-> IF "body" \in DOMAIN cs[i] THEN cs[i].body ELSE ""]]

\* save_state, lines 380-393: the dict it builds
StateDict(cs, current, remaining, failedList, head) ==
    [commits |-> CommitsData(cs),
     original_branch |-> current,
     remaining_branches |-> remaining,
     failed_branches |-> failedList,
     current_branch |-> IF head # "" /\ head # "HEAD" THEN head ELSE PyNone]

\* json.dump
JsonDump(d) ==
    [commits |-> [i \in 1..Len(d.commits) |->
                    [hash |-> JStr(d.commits[i].hash),
                     subject |-> JStr(d.commits[i].subject),
                     body |-> JStr(d.commits[i].body)]],
     original_branch |-> JsonOfOpt(d.original_branch),
     remaining_branches |-> JsonOfSeq(d.remaining_branches),
     failed_branches |-> JsonOfSeq(d.failed_branches),
     current_branch |-> JsonOfOpt(d.current_branch)]

\* json.load of a JSON object: every key it holds, decoded
JsonLoad(j) ==
    [k \in DOMAIN j |->
        IF k = "commits"
        THEN [i \in 1..Len(j[k]) |->
                [hash |-> j[k][i].hash[2],
                 subject |-> j[k][i].subject[2],
                 body |-> j[k][i].body[2]]]
        ELSE IF k \in {"remaining_branches", "failed_branches"}
        THEN SeqOfJson(j[k])
        ELSE OptOfJson(j[k])]

\* dict.get(key, default)
Get(d, key, default) == IF key \in DOMAIN d THEN d[key] ELSE default

\* a file whose content json.load rejects
NotJson == [garbage |-> TRUE]

\* a state file left by an earlier version of the tool: one commit_hash
LegacyFile ==
    [commit_hash |-> JStr("h1"),
     original_branch |-> JStr("main"),
     remaining_branches |-> <<JStr("b2")>>,
     failed_branches |-> <<>>]

\* a state file without change set: neither commits nor commit_hash
NoCommitsFile ==
    [original_branch |-> JStr("main"),
     remaining_branches |-> <<JStr("b1")>>,
     failed_branches |-> <<>>]

\* state files the tool may find when it is first started: none, one that is
\* no JSON, JSON objects without remaining_branches, without
\* original_branch or without change set, a legacy file
InitialFiles ==
    { <<>>,
      <<NotJson>>,
      <<[original_branch |-> JStr("main"), failed_branches |-> <<>>]>>,
      <<[remaining_branches |-> <<JStr("b1")>>, failed_branches |-> <<>>]>>,
      <<NoCommitsFile>>,
      <<LegacyFile>> }

\* mutant: the failed-branch list is not written
save_stateNoFailed(cs, current, remaining, failedList, head) ==
    <<JsonDump(StateDict(cs, current, remaining, <<>>, head))>>

\* mutant: the state is written as if the head had been popped already
save_stateTail(cs, current, remaining, failedList, head) ==
    <<JsonDump(StateDict(cs, current, Tail(remaining), failedList, head))>>

\* save_state: the file content it writes
save_state(cs, current, remaining, failedList, head) ==
    <<JsonDump(StateDict(cs, current, remaining, failedList, head))>>

\* load_state, lines 407-409: backward compatibility
Upgrade(st) ==
    IF "commit_hash" \in DOMAIN st /\ "commits" \notin DOMAIN st
    THEN [k \in DOMAIN st \cup {"commits"} |->
            IF k = "commits"
            THEN <<[hash |-> st.commit_hash, subject |-> "", body |-> ""]>>
            ELSE st[k]]
    ELSE st

\* mutant: a legacy state is returned as it was read
load_stateNoUpgrade(file) ==
    IF file = <<>> \/ file = <<NotJson>> THEN <<>> ELSE <<JsonLoad(file[1])>>

\* load_state: <<>> for None (no file, or json.JSONDecodeError caught),
\* <<dict>> otherwise
load_state(file) ==
    IF file = <<>> THEN <<>>
    ELSE IF file = <<NotJson>> THEN <<>>
    ELSE <<Upgrade(JsonLoad(file[1]))>>

\* mutant: the file is left in place
cleanup_stateKeep(file) == file

\* cleanup_state
cleanup_state(file) == <<>>

(* --------------------------- change set, plan ------------------------- *)
\* mutant: the changes are listed newest first
get_last_n_commitsNewestFirst(n) ==
    IF n <= 0 THEN <<>>
    ELSE [i \in 1..Min(n, Len(History)) |-> History[Len(History) + 1 - i]]

\* get_last_n_commits
get_last_n_commits(n) ==
    IF n <= 0 THEN <<>>
    ELSE SubSeq(History, Len(History) - Min(n, Len(History)) + 1, Len(History))

\* main, lines 654-660: the change set of a fresh run
FreshCommits(n) ==
    IF n = 1
    THEN LET c == History[Len(History)]
         IN <<[hash |-> c.hash, subject |-> c.subject, body |-> ""]>>
    ELSE get_last_n_commits(n)

\* mutant: every pattern is compared as an exact name
ExcludesExactOnly(b, pattern) == b = pattern

\* get_all_branches, lines 127-130: is branch b dropped by this pattern
Excludes(b, pattern) ==
    IF HasWildcard(pattern)
    THEN FnMatch(Chars(b), Chars(pattern))
    ELSE b = pattern

RECURSIVE ApplyExcludes(_, _)
\* get_all_branches, lines 125-130
ApplyExcludes(bs, pats) ==
    IF pats = <<>> THEN bs
    ELSE ApplyExcludes(SelectSeq(bs, LAMBDA b : ~Excludes(b, Head(pats))),
                       Tail(pats))

\* get_all_branches
get_all_branches(current, exclude_current, exclude_patterns) ==
    LET bs == IF exclude_current /\ current # PyNone
              THEN SelectNot(GitBranchList, current) ELSE GitBranchList
    IN ApplyExcludes(bs, exclude_patterns)

\* main, lines 648-652: the plan of a resumed run
ResumedPlan(st) ==
    [commits |-> Get(st, "commits", <<>>),
     original_branch |-> st.original_branch,
     branches |-> st.remaining_branches,
     failed_branches |-> Get(st, "failed_branches", <<>>)]

(* ------------------------------ gateway ------------------------------- *)
IsPdf(p) == p.ext = "pdf"

IsTex(p) == p.ext = "tex"

TexPaths == {p \in Paths : IsTex(p)}

\* `git diff --check` fails when a text file still holds conflict markers
DiffCheckFails(unres) == \E p \in unres : ~IsPdf(p)

\* check_conflicts
check_conflicts(unres) == DiffCheckFails(unres) \/ unres # {}

\* is_rebase_in_progress
is_rebase_in_progress(cp) == cp

\* tex_for_pdf: same directory, same base name, .tex extension; None when no
\* such file exists
tex_for_pdf(pdf_path, exists) ==
    LET candidate == [pdf_path EXCEPT !.ext = "tex"]
    IN IF exists THEN candidate ELSE NoPath

\* mutant: every artifact is taken to have a usable source
TexUsableAlways(tex_path, conflicted_set) == TRUE

\* handle_conflicted_pdfs, lines 330-337: the source is there and is not
\* itself conflicted
TexUsable(tex_path, conflicted_set) ==
    tex_path # NoPath /\ tex_path \notin conflicted_set

\* Path.with_suffix('.pdf') in compile_tex_file
pdf_for_tex(p) == [p EXCEPT !.ext = "pdf"]

(* -------------------------------- Init -------------------------------- *)
NoResult == [ok |-> FALSE, reason |-> "none"]

NoArgs == [number |-> 1, exclude_branch |-> <<>>, resume |-> FALSE]

Init ==
    /\ pc = "off"
    /\ args = NoArgs
    /\ state = <<>>
    /\ commits = <<>>
    /\ original_branch = PyNone
    /\ branches = <<>>
    /\ failed_branches = <<>>
    /\ processed = 0 /\ skipped = 0 /\ failed = 0
    /\ branch = ""
    /\ result = NoResult
    /\ wfrRet = FALSE
    /\ exitStatus = -1
    /\ exitKind = "none"
    /\ hcpCaller = "none" /\ hcpTodo = <<>> /\ hcpSet = {} /\ hcpRet = TRUE
    /\ htfCaller = "none" /\ htfTodo = <<>> /\ htfPdf = FALSE /\ htfRet = TRUE
    /\ stateFile \in InitialFiles
    /\ gitHead = "main"
    /\ cpInProgress = FALSE
    /\ unresolved = {}
    /\ starts = 0
    /\ initQueue = <<>>
    /\ attempted = <<>>
    /\ poppedEver = {}
    /\ savedRun = <<>>
    /\ someFailed = FALSE
    /\ manualAborted = ""
    /\ restoreOk = "none"
    /\ lastReplay = "none"
    /\ abortInvoked = FALSE
    /\ hardAbort = "none"
    /\ reconAfterAbort = FALSE
    /\ hcpTex = NoPath /\ hcpLeft = "none"
    /\ reach = "none" /\ reconStarted = FALSE /\ texPass = "none"
    /\ ckFailed = "" /\ outcomes = <<>> /\ loadedFailed = <<>>
    /\ warned = FALSE
    /\ inFlight = FALSE /\ pdfStaged = FALSE /\ prompted = FALSE
    /\ wfrAns = "none"
    /\ htfAns = "none" /\ htfStagedOn = "none"
    /\ lastArgs = <<>> /\ quiet = 0

\* locals of handle_conflicted_pdfs cease to exist when it returns
HcpFrameGone ==
    /\ hcpCaller' = "none" /\ hcpTodo' = <<>> /\ hcpSet' = {}
    /\ hcpTex' = NoPath /\ hcpLeft' = "none"

\* locals of handle_tex_files cease to exist when it returns
HtfFrameGone ==
    /\ htfCaller' = "none" /\ htfTodo' = <<>> /\ htfPdf' = FALSE
    /\ htfAns' = "none" /\ htfStagedOn' = "none"

\* history of one branch attempt, cleared when the attempt is over
AttemptHistGone ==
    /\ lastReplay' = "none"
    /\ abortInvoked' = FALSE
    /\ hardAbort' = "none"
    /\ reconAfterAbort' = FALSE
    /\ reach' = "none" /\ reconStarted' = FALSE /\ texPass' = "none"
    /\ inFlight' = FALSE /\ pdfStaged' = FALSE /\ prompted' = FALSE
    /\ wfrAns' = "none"
    /\ lastArgs' = <<>> /\ quiet' = 0

\* the memory of a process that has just been started
FreshMemory ==
    /\ commits' = <<>>
    /\ original_branch' = PyNone
    /\ branches' = <<>>
    /\ failed_branches' = <<>>
    /\ processed' = 0 /\ skipped' = 0 /\ failed' = 0
    /\ branch' = ""
    /\ result' = NoResult
    /\ wfrRet' = FALSE
    /\ HcpFrameGone /\ hcpRet' = TRUE
    /\ HtfFrameGone /\ htfRet' = TRUE
    /\ initQueue' = <<>>
    /\ attempted' = <<>>
    /\ someFailed' = FALSE
    /\ manualAborted' = ""
    /\ restoreOk' = "none"
    /\ ckFailed' = "" /\ outcomes' = <<>> /\ loadedFailed' = <<>>
    /\ warned' = FALSE
    /\ AttemptHistGone

Exit(status, kind) ==
    /\ pc' = "exit"
    /\ exitStatus' = status
    /\ exitKind' = kind

\* an uncaught exception ends the process with a traceback
Crash == Exit(1, "crash")

\* an uncaught KeyError ends the process with a traceback
KeyError == Exit(1, "keyerror")

(* ------------------------- main: before the loop ---------------------- *)
\* mutant: a count of zero is let through
NumberRejectedBelowZero(n) == n < 0

\* main, line 616
NumberRejected(n) == n < 1

\* main, lines 614-639: parse the command line, validate -n, load the state
Invoke(n, excl, resume) ==
    /\ UNCHANGED savedRun
    /\ pc \in {"off", "exit"}
    /\ starts < MaxStarts
    /\ starts' = starts + 1
    /\ FreshMemory
    /\ IF NumberRejected(n)
       THEN /\ state' = <<>>
            /\ args' = [number |-> n, exclude_branch |-> excl, resume |-> resume]
            /\ Exit(1, "rejected")
       ELSE LET loaded == IF resume \/ stateFile # <<>>
                          THEN load_state(stateFile) ELSE <<>>
            IN /\ args' = [number |-> n, exclude_branch |-> excl,
                           resume |-> resume]
               /\ IF loaded # <<>> /\ "remaining_branches" \notin DOMAIN loaded[1]
                  THEN state' = <<>> /\ KeyError         \* line 634
                  ELSE /\ state' = loaded
                       /\ pc' = IF loaded # <<>> THEN "resume_prompt"
                                ELSE "precheck"
                       /\ exitStatus' = -1
                       /\ exitKind' = "none"
    /\ UNCHANGED <<stateFile, gitVars, poppedEver>>

\* main, lines 636-639: "Continue? (y/n)" of a resume
ResumePrompt(resp) ==
    /\ UNCHANGED savedRun
    /\ pc = "resume_prompt"
    /\ IF resp = "y"
       THEN pc' = "precheck" /\ UNCHANGED exitVars
       ELSE Exit(0, "declined")
    /\ UNCHANGED <<memVars, hcpVars, htfVars, stateFile, gitVars, runHist, attHist>>

\* main, lines 641-703: uncommitted-changes prompt, then the plan of the run
Precheck(dirty, resp) ==
    /\ UNCHANGED savedRun
    /\ pc = "precheck"
    /\ ~dirty => resp = "y"              \* the prompt is shown when dirty only
    /\ IF dirty /\ ~is_rebase_in_progress(cpInProgress) /\ resp # "y"
       THEN /\ Exit(0, "declined")
            /\ UNCHANGED <<memVars, runHist>>
       ELSE IF state # <<>> /\ "original_branch" \notin DOMAIN state[1]
       THEN /\ KeyError                                  \* line 650
            /\ state' = <<>>
            /\ args' = NoArgs
            /\ UNCHANGED <<commits, original_branch, branches, failed_branches,
                           processed, skipped, failed, branch, result, wfrRet,
                           runHist>>
       ELSE IF state # <<>>
       THEN /\ commits' = ResumedPlan(state[1]).commits
            /\ original_branch' = ResumedPlan(state[1]).original_branch
            /\ branches' = ResumedPlan(state[1]).branches
            /\ failed_branches' = ResumedPlan(state[1]).failed_branches
            /\ initQueue' = branches'
            /\ pc' = "loop"
            /\ args' = args
            /\ state' = <<>>
            /\ UNCHANGED <<processed, skipped, failed, branch, result,
                           wfrRet, exitVars, starts, attempted, poppedEver,
                           someFailed, manualAborted, restoreOk, ckFailed,
                           outcomes, warned>>
            /\ loadedFailed' = failed_branches'
       ELSE /\ commits' = FreshCommits(args.number)
            /\ original_branch' = gitHead
            /\ branches' = get_all_branches(gitHead, TRUE, args.exclude_branch)
            /\ failed_branches' = <<>>
            /\ IF branches' = <<>>
               THEN Exit(0, "nobranches")
               ELSE pc' = "confirm" /\ UNCHANGED exitVars
            /\ args' = args
            /\ warned' = (args.number # 1 /\ Len(commits') < args.number)
            /\ UNCHANGED <<state, processed, skipped, failed, branch, result,
                           wfrRet, starts, initQueue, attempted, poppedEver,
                           someFailed, manualAborted, restoreOk, ckFailed,
                           outcomes, loadedFailed>>
    /\ UNCHANGED <<hcpVars, htfVars, stateFile, gitVars, attHist>>

\* main, lines 705-708: "Continue? (y/n)" of a fresh run
Confirm(resp) ==
    /\ UNCHANGED savedRun
    /\ pc = "confirm"
    /\ IF resp = "y"
       THEN /\ pc' = "loop"
            /\ initQueue' = branches
            /\ poppedEver' = {}
            /\ UNCHANGED exitVars
       ELSE /\ Exit(0, "declined")
            /\ UNCHANGED <<initQueue, poppedEver>>
    /\ UNCHANGED <<memVars, hcpVars, htfVars, stateFile, gitVars, attHist, starts,
                   attempted, someFailed, manualAborted, restoreOk, runMore>>

(* ----------------------------- main: loop ----------------------------- *)
\* main, lines 714-715 and 742: loop test, branch = branches[0]
LoopHead ==
    /\ UNCHANGED savedRun
    /\ pc = "loop"
    /\ IF branches # <<>>
       THEN branch' = Head(branches) /\ pc' = "save"
       ELSE branch' = branch /\ pc' = "cleanup"
    /\ args' = NoArgs
    /\ warned' = FALSE
    /\ UNCHANGED <<state, commits, original_branch, branches, failed_branches,
                   processed, skipped, failed, result, wfrRet, exitVars, hcpVars,
                   htfVars, stateFile, gitVars, starts, initQueue, attempted,
                   poppedEver, someFailed, manualAborted, restoreOk, ckFailed,
                   outcomes, loadedFailed, attHist>>

\* main, line 717: save_state(...)
SaveState ==
    /\ pc = "save"
    /\ stateFile' = save_state(commits, original_branch, branches, failed_branches,
                               gitHead)
    /\ savedRun' = <<[commits |-> commits, original_branch |-> original_branch,
                      branches |-> branches, failed_branches |-> failed_branches]>>
    /\ pc' = "cpc_checkout"
    /\ UNCHANGED <<memVars, exitVars, hcpVars, htfVars, gitVars, runHist, attHist>>

Return(ok, reason) ==
    /\ result' = [ok |-> ok, reason |-> reason]
    /\ pc' = "dispatch"

memButResult == <<args, state, commits, original_branch, branches, failed_branches,
                  processed, skipped, failed, branch, wfrRet>>

\* cherry_pick_commits, lines 428-432: git checkout. git refuses to switch
\* while paths are unmerged; a switch that succeeds ends a cherry-pick in
\* progress (cancel), other operations in progress stay
Checkout(ok, cancel) ==
    /\ UNCHANGED <<savedRun, wfrAns, lastArgs, quiet>>
    /\ pc = "cpc_checkout"
    /\ unresolved # {} => ~ok
    /\ cancel => ok /\ cpInProgress      \* cancel is read then only
    /\ attempted' = Append(attempted, branch)
    /\ ckFailed' = IF ok THEN ckFailed ELSE branch
    /\ inFlight' = (cpInProgress /\ gitHead = branch)
    /\ cpInProgress' = IF cancel THEN FALSE ELSE cpInProgress
    /\ IF ok
       THEN /\ gitHead' = branch
            /\ pc' = "cpc_contains"
            /\ result' = result
       ELSE /\ gitHead' = gitHead
            /\ Return(FALSE, "checkout_failed")
    /\ UNCHANGED <<memButResult, exitVars, hcpVars, htfVars, stateFile,
                   unresolved, starts, initQueue, poppedEver,
                   someFailed, manualAborted, restoreOk, outcomes, loadedFailed,
                   warned, lastReplay, abortInvoked, hardAbort, reconAfterAbort,
                   reach, reconStarted, texPass, pdfStaged, prompted>>

\* cherry_pick_commits, line 438: the branch name occurs in the output of
\* `git branch --contains`, given as the set of names it lists
InOutput(b, listed) == \E x \in listed : IsSubstr(Chars(b), Chars(x))

\* mutant: the branch has to be the only one git lists
AllAppliedAlone(b, cs, outs) == \A i \in 1..Len(cs) : outs[i] = {b}

\* cherry_pick_commits, lines 435-440: all_applied after the loop
AllApplied(b, cs, outs) == \A i \in 1..Len(cs) : InOutput(b, outs[i])

\* cherry_pick_commits, lines 434-445: are all commits already in the branch;
\* outs[i] is the set of branches git lists as containing commits[i], the
\* branch the commits were taken from always among them
Contains(outs) ==
    /\ UNCHANGED <<savedRun, wfrAns, lastArgs, quiet>>
    /\ pc = "cpc_contains"
    /\ reach' = IF \A i \in 1..Len(commits) : branch \in outs[i]
                THEN "all" ELSE "some"
    /\ IF AllApplied(branch, commits, outs)
       THEN Return(TRUE, "already_applied")
       ELSE pc' = "cpc_pick" /\ result' = result
    /\ UNCHANGED <<memButResult, exitVars, hcpVars, htfVars, stateFile, gitVars,
                   runHist, lastReplay, abortInvoked, hardAbort, reconAfterAbort,
                   reconStarted, texPass, inFlight, pdfStaged, prompted>>

(* ------------------------ gateway state changes ----------------------- *)
\* mutant: the abort is not issued
AbortResultNoop(cp, unres) == [cp |-> cp, unres |-> unres]

\* git cherry-pick --abort on a working copy (cp, unres): the replay ends and
\* its unresolved paths are reset
AbortResult(cp, unres) ==
    [cp |-> FALSE, unres |-> IF cp THEN {} ELSE unres]

\* run_git_command(['cherry-pick', '--abort'])
GitAbort ==
    /\ cpInProgress' = AbortResult(cpInProgress, unresolved).cp
    /\ unresolved' = AbortResult(cpInProgress, unresolved).unres
    /\ gitHead' = gitHead

\* git cherry-pick --continue: out is "ok", "stuck" (refused or failed, nothing
\* changes) or "next" (the next change of a range conflicts in u)
GitContinue(out, u) ==
    /\ out \in {"ok", "next"} => cpInProgress /\ unresolved = {}
    /\ out = "next" => Len(commits) > 1
    /\ out # "next" => u = Paths         \* u is read for "next" only
    /\ cpInProgress' = IF out = "ok" THEN FALSE ELSE cpInProgress
    /\ unresolved' = IF out = "next" THEN u ELSE unresolved
    /\ gitHead' = gitHead

\* git add <path>
GitAdd(path, ok) ==
    /\ unresolved' = IF ok THEN unresolved \ {path} ELSE unresolved
    /\ UNCHANGED <<gitHead, cpInProgress>>

\* mutant: the success flag is not looked at
ReplayOkAlways(out) == TRUE

\* the success flag run_git_command returns for a replay or replay-continue
ReplayOk(out) == out = "ok"

(* ---------------------- cherry_pick_commits: replay ------------------- *)
CallHcp(caller) ==
    /\ pc' = "hcp_start"
    /\ hcpCaller' = caller
    /\ UNCHANGED <<hcpTodo, hcpSet, hcpRet, hcpMore>>

CallHtf(caller) ==
    /\ pc' = "htf_start"
    /\ htfCaller' = caller
    /\ UNCHANGED <<htfTodo, htfPdf, htfRet, htfMore>>

\* mutant: a replay in progress is not looked at
IsConflictMarkersOnly(unres, cp) == check_conflicts(unres)

\* cherry_pick_commits, line 475: is a failed replay a conflict
IsConflict(unres, cp) == check_conflicts(unres) \/ is_rebase_in_progress(cp)

\* mutant: the range is built from the last element to the first
cherry_pick_argsReversed(cs) ==
    IF Len(cs) = 1
    THEN <<"cherry-pick", <<cs[1].hash>>>>
    ELSE <<"cherry-pick", <<cs[Len(cs)].hash, "^..", cs[1].hash>>>>

\* cherry_pick_commits, lines 447-459: the arguments of the replay; the
\* revision is kept as the pieces the f-string joins
cherry_pick_args(cs) ==
    IF Len(cs) = 1
    THEN <<"cherry-pick", <<cs[1].hash>>>>
    ELSE <<"cherry-pick", <<cs[1].hash, "^..", cs[Len(cs)].hash>>>>

\* cherry_pick_commits, lines 461-512: the replay and the classification of
\* its outcome
Pick(out, u, texs) ==
    /\ UNCHANGED <<savedRun, wfrAns, quiet>>
    /\ pc = "cpc_pick"
    /\ lastArgs' = cherry_pick_args(commits)
    /\ (cpInProgress \/ unresolved # {}) => out = "error"
    /\ out # "conflict" => u = {}        \* u is read for a conflict only
    /\ out # "ok" => texs = {}           \* texs is read after a success only
    /\ lastReplay' = IF ReplayOk(out) THEN "pick_ok" ELSE "pick_fail"
    /\ cpInProgress' = IF out = "conflict" THEN TRUE ELSE cpInProgress
    /\ unresolved' = IF out = "conflict" THEN u ELSE unresolved
    /\ gitHead' = gitHead
    /\ IF ReplayOk(out)
       THEN IF texs # {}
            THEN CallHtf("cpc_ok") /\ UNCHANGED <<result, hcpVars>>
            ELSE Return(TRUE, "success") /\ UNCHANGED <<hcpVars, htfVars>>
       ELSE IF IsConflict(unresolved', cpInProgress')
            THEN CallHcp("cpc") /\ UNCHANGED <<result, htfVars>>
            ELSE Return(FALSE, "failed") /\ UNCHANGED <<hcpVars, htfVars>>
    /\ UNCHANGED <<memButResult, exitVars, stateFile, runHist, abortInvoked,
                   hardAbort, reconAfterAbort, attMore>>

\* cherry_pick_commits, line 467-472: after the post-success artifact pass
CpcOkRet ==
    /\ UNCHANGED <<savedRun, wfrAns, lastArgs, quiet>>
    /\ pc = "cpc_ok_ret"
    /\ Return(TRUE, "success")
    /\ texPass' = IF htfRet THEN "done" ELSE "aborted"
    /\ htfRet' = TRUE
    /\ UNCHANGED <<memButResult, exitVars, hcpVars, htfCaller, htfTodo, htfPdf,
                   htfMore, stateFile, gitVars, runHist, lastReplay, abortInvoked,
                   hardAbort, reconAfterAbort, reach, reconStarted, inFlight,
                   pdfStaged, prompted>>

\* mutant: the reconciler is never taken to have fixed everything
ResolvedByPdfsNever(unres) == FALSE

\* cherry_pick_commits, line 489: did the reconciler fix everything
ResolvedByPdfs(unres) == ~check_conflicts(unres)

\* cherry_pick_commits, lines 485-492 and 501: after handle_conflicted_pdfs
CpcAfterPdfs ==
    /\ UNCHANGED savedRun
    /\ pc = "cpc_after_pdfs"
    /\ hcpRet' = TRUE
    /\ IF ~hcpRet
       THEN Return(FALSE, "conflict") /\ UNCHANGED htfVars
       ELSE IF ResolvedByPdfs(unresolved)
       THEN CallHtf("cpc_conf") /\ result' = result
       ELSE Return(FALSE, "conflict") /\ UNCHANGED htfVars
    /\ UNCHANGED <<memButResult, exitVars, hcpCaller, hcpTodo, hcpSet, hcpMore,
                   stateFile, gitVars, runHist, attHist>>

\* cherry_pick_commits, lines 490-501: after handle_tex_files, replay-continue
CpcAfterTex(out, u) ==
    /\ UNCHANGED <<savedRun, wfrAns, lastArgs, quiet>>
    /\ pc = "cpc_after_tex"
    /\ htfRet' = TRUE
    /\ IF ~htfRet
       THEN /\ out = "stuck" /\ u = Paths   \* no git call: inputs not read
            /\ Return(FALSE, "conflict")
            /\ UNCHANGED <<gitVars, lastReplay>>
       ELSE /\ GitContinue(out, u)
            /\ lastReplay' = IF out = "ok" THEN "cont_ok" ELSE "cont_fail"
            /\ IF ReplayOk(out)
               THEN Return(TRUE, "success")
               ELSE Return(FALSE, "conflict")
    /\ UNCHANGED <<memButResult, exitVars, hcpVars, htfCaller, htfTodo, htfPdf,
                   htfMore, stateFile, runHist, abortInvoked, hardAbort,
                   reconAfterAbort, attMore>>

(* ------------------------ handle_conflicted_pdfs ---------------------- *)
HcpReturnPc == IF hcpCaller = "cpc" THEN "cpc_after_pdfs" ELSE "wfr_after_pdfs"

HcpReturn(v) ==
    /\ hcpRet' = v
    /\ pc' = HcpReturnPc
    /\ HcpFrameGone

\* handle_conflicted_pdfs, lines 312-321
HcpStart ==
    /\ UNCHANGED <<savedRun, wfrAns, lastArgs, quiet>>
    /\ pc = "hcp_start"
    /\ reconStarted' = TRUE
    /\ LET conflicted_pdfs == SortedPaths({p \in unresolved : IsPdf(p)})
       IN IF conflicted_pdfs = <<>>
          THEN HcpReturn(TRUE) /\ UNCHANGED reconAfterAbort
          ELSE /\ pc' = "hcp_next"
               /\ hcpTodo' = conflicted_pdfs
               /\ hcpSet' = unresolved
               /\ UNCHANGED <<hcpRet, hcpCaller, hcpMore>>
               /\ reconAfterAbort' = (reconAfterAbort \/ hardAbort # "none")
    /\ UNCHANGED <<memVars, exitVars, htfVars, stateFile, gitVars,
                   runHist, lastReplay, abortInvoked, hardAbort, reach, texPass,
                   inFlight, pdfStaged, prompted>>

\* the for loop goes on to the next artifact; resp is the answer that ended
\* the current one
HcpLeave(resp) ==
    /\ pc' = "hcp_next"
    /\ hcpTodo' = Tail(hcpTodo)
    /\ hcpTex' = NoPath
    /\ hcpLeft' = resp
    /\ UNCHANGED <<hcpRet, hcpCaller, hcpSet>>

\* handle_conflicted_pdfs, lines 323-337 and 370: next artifact, its source
HcpNext(texExists) ==
    /\ UNCHANGED savedRun
    /\ pc = "hcp_next"
    /\ IF hcpTodo = <<>>
       THEN HcpReturn(TRUE)
       ELSE LET tex_path == tex_for_pdf(Head(hcpTodo), texExists)
            IN IF ~TexUsable(tex_path, hcpSet)
               THEN HcpLeave("none")
               ELSE /\ pc' = "hcp_compile"
                    /\ hcpTex' = tex_path
                    /\ hcpLeft' = "none"
                    /\ UNCHANGED <<hcpCaller, hcpTodo, hcpSet, hcpRet>>
    /\ UNCHANGED <<memVars, exitVars, htfVars, stateFile,
                   gitVars, runHist, attHist>>

\* handle_conflicted_pdfs, lines 339-342 and 350-352: compile_tex_file
HcpCompile(ok) ==
    /\ UNCHANGED savedRun
    /\ pc = "hcp_compile"
    /\ pc' = IF ok THEN "hcp_review" ELSE "hcp_failprompt"
    /\ UNCHANGED <<memVars, exitVars, hcpVars, htfVars, stateFile, gitVars,
                   runHist, attHist>>

\* handle_conflicted_pdfs, lines 343-348: prompt after a failed compile
HcpFailPrompt(resp) ==
    /\ UNCHANGED <<savedRun, wfrAns, lastArgs>>
    /\ quiet' = 0
    /\ pc = "hcp_failprompt"
    /\ IF resp = "retry"
       THEN pc' = "hcp_compile" /\ UNCHANGED <<hcpVars, hardAbort>>
       ELSE IF resp = "abort"
       THEN HcpReturn(FALSE) /\ hardAbort' = hcpCaller
       ELSE HcpLeave(resp) /\ UNCHANGED hardAbort
    /\ UNCHANGED <<memVars, exitVars, htfVars, stateFile,
                   gitVars, runHist, lastReplay, abortInvoked, reconAfterAbort,
                   attMore>>

\* handle_conflicted_pdfs, lines 354-368: review prompt of a rebuilt artifact
HcpReview(resp, ok) ==
    /\ UNCHANGED <<savedRun, wfrAns, lastArgs>>
    /\ quiet' = 0
    /\ pc = "hcp_review"
    /\ resp # "y" => ok                  \* ok is the result of git add
    /\ IF resp = "y"
       THEN GitAdd(Head(hcpTodo), ok) /\ HcpLeave(resp)
       ELSE IF resp = "skip"
       THEN HcpLeave(resp) /\ UNCHANGED gitVars
       ELSE pc' = "hcp_compile" /\ UNCHANGED <<hcpVars, gitVars>>
    /\ pdfStaged' = (pdfStaged \/ (resp = "y" /\ ok))
    /\ UNCHANGED <<memVars, exitVars, htfVars, stateFile, runHist, lastReplay,
                   abortInvoked, hardAbort, reconAfterAbort, reach, reconStarted,
                   texPass, inFlight, prompted>>

(* --------------------------- handle_tex_files ------------------------- *)
HtfReturnPc ==
    IF htfCaller = "cpc_ok" THEN "cpc_ok_ret"
    ELSE IF htfCaller = "cpc_conf" THEN "cpc_after_tex"
    ELSE "wfr_after_tex"

HtfReturn(v) ==
    /\ htfRet' = v
    /\ pc' = HtfReturnPc
    /\ HtfFrameGone


\* handle_tex_files, lines 235-241: get_modified_tex_files()
HtfStart(texs) ==
    /\ UNCHANGED <<savedRun, wfrAns, lastArgs, quiet>>
    /\ pc = "htf_start"
    /\ (unresolved \cap TexPaths) \subseteq texs
    /\ reconStarted' = TRUE
    /\ IF texs = {}
       THEN HtfReturn(TRUE)
       ELSE pc' = "htf_next" /\ htfTodo' = SortedPaths(texs)
            /\ UNCHANGED <<htfRet, htfCaller, htfPdf, htfMore>>
    /\ UNCHANGED <<memVars, exitVars, hcpVars, stateFile,
                   gitVars, runHist, lastReplay, abortInvoked, hardAbort,
                   reconAfterAbort, reach, texPass, inFlight, pdfStaged, prompted>>

\* handle_tex_files, lines 243-261 and 301: next source, first compile
HtfNext(ok) ==
    /\ UNCHANGED savedRun
    /\ pc = "htf_next"
    /\ IF htfTodo = <<>>
       THEN HtfReturn(TRUE)
       ELSE /\ pc' = IF ok THEN "htf_review" ELSE "htf_failprompt"
            /\ htfPdf' = ok
            /\ htfAns' = "none" /\ htfStagedOn' = "none"
            /\ UNCHANGED <<htfRet, htfCaller, htfTodo>>
    /\ UNCHANGED <<memVars, exitVars, hcpVars, stateFile,
                   gitVars, runHist, attHist>>

\* handle_tex_files, lines 251-255: "Continue anyway?" after a failed compile
HtfFailPrompt(resp) ==
    /\ UNCHANGED savedRun
    /\ quiet' = 0
    /\ pc = "htf_failprompt"
    /\ IF resp = "y"
       THEN pc' = "htf_next" /\ htfTodo' = Tail(htfTodo)
            /\ UNCHANGED <<htfRet, htfCaller, htfPdf, htfMore>>
       ELSE HtfReturn(FALSE)
    /\ UNCHANGED <<memVars, exitVars, hcpVars, stateFile,
                   gitVars, runHist, attRest, wfrAns,
                   lastArgs>>

\* handle_tex_files, lines 263-299: the review prompt
HtfReview(resp, ok) ==
    /\ UNCHANGED savedRun
    /\ quiet' = 0
    /\ pc = "htf_review"
    /\ resp = "n" => ok                  \* ok: result of git add or recompile
    /\ IF resp = "y"
       THEN IF ~htfPdf
            THEN Crash /\ UNCHANGED <<htfTodo, htfPdf, htfMore, gitVars>>
            ELSE /\ GitAdd(pdf_for_tex(Head(htfTodo)), ok)
                 /\ pc' = IF ok THEN "htf_next" ELSE "htf_review"
                 /\ htfTodo' = IF ok THEN Tail(htfTodo) ELSE htfTodo
                 /\ htfAns' = resp
                 /\ htfStagedOn' = IF ok THEN resp ELSE htfStagedOn
                 /\ UNCHANGED <<htfPdf, exitVars>>
       ELSE IF resp = "n"
       THEN pc' = "htf_fix" /\ htfAns' = resp
            /\ UNCHANGED <<htfTodo, htfPdf, htfStagedOn, gitVars, exitVars>>
       ELSE pc' = "htf_review" /\ htfPdf' = ok /\ htfAns' = "none"
            /\ UNCHANGED <<htfTodo, htfStagedOn, gitVars, exitVars>>
    /\ UNCHANGED <<memVars, hcpVars, htfCaller, htfRet, stateFile, runHist,
                   attRest, wfrAns,
                   lastArgs>>

\* handle_tex_files, lines 276-283: "Have you fixed the .tex file?"
HtfFix(resp, ok) ==
    /\ UNCHANGED savedRun
    /\ quiet' = 0
    /\ pc = "htf_fix"
    /\ resp # "y" => ok                  \* ok is the result of the recompile
    /\ IF resp = "y"
       THEN pc' = "htf_review" /\ htfPdf' = ok /\ htfAns' = "none"
       ELSE pc' = "htf_cont" /\ htfPdf' = htfPdf /\ htfAns' = htfAns
    /\ UNCHANGED <<memVars, exitVars, hcpVars, htfCaller, htfTodo, htfRet,
                   htfStagedOn, stateFile, gitVars, runHist, attRest, wfrAns,
                   lastArgs>>

\* handle_tex_files, lines 285-289: "Continue without fixing?"
HtfCont(resp, ok) ==
    /\ UNCHANGED savedRun
    /\ quiet' = 0
    /\ pc = "htf_cont"
    /\ resp # "y" => ok                  \* ok is the result of git add
    /\ IF resp = "y"
       THEN IF ~htfPdf
            THEN Crash /\ UNCHANGED <<htfVars, gitVars>>
            ELSE /\ GitAdd(pdf_for_tex(Head(htfTodo)), ok)
                 /\ pc' = "htf_next"
                 /\ htfTodo' = Tail(htfTodo)
                 /\ htfStagedOn' = IF ok THEN htfAns ELSE htfStagedOn
                 /\ UNCHANGED <<htfRet, htfCaller, htfPdf, htfAns, exitVars>>
       ELSE HtfReturn(FALSE) /\ UNCHANGED <<gitVars, exitVars>>
    /\ UNCHANGED <<memVars, hcpVars, stateFile, runHist, attRest, wfrAns,
                   lastArgs>>

(* -------------------------- wait_for_resolution ----------------------- *)
\* the history counter of silent iterations stops counting here
QuietCap == 3

WfrReturn(v) ==
    /\ wfrRet' = v
    /\ pc' = "wfr_done"

memButWfr == <<args, state, commits, original_branch, branches, failed_branches,
               processed, skipped, failed, branch, result>>

\* wait_for_resolution, lines 517-519: top of the loop
WfrTop ==
    /\ UNCHANGED <<savedRun, lastArgs>>
    /\ wfrAns' = "none"
    /\ quiet' = IF quiet < QuietCap THEN quiet + 1 ELSE quiet
    /\ pc = "wfr_top"
    /\ CallHcp("wfr")
    /\ UNCHANGED <<memVars, exitVars, htfVars, stateFile, gitVars, runHist,
                   attRest>>

\* wait_for_resolution, lines 519-524: after handle_conflicted_pdfs
WfrAfterPdfs ==
    /\ UNCHANGED <<savedRun, wfrAns, lastArgs, quiet>>
    /\ pc = "wfr_after_pdfs"
    /\ hcpRet' = TRUE
    /\ IF ~hcpRet
       THEN /\ GitAbort
            /\ abortInvoked' = TRUE
            /\ WfrReturn(FALSE)
       ELSE /\ pc' = IF check_conflicts(unresolved)
                     THEN "wfr_prompt" ELSE "wfr_state"
            /\ UNCHANGED <<gitVars, abortInvoked, wfrRet>>
    /\ prompted' = (prompted \/ pc' = "wfr_prompt")
    /\ UNCHANGED <<memButWfr, exitVars, hcpCaller, hcpTodo, hcpSet, hcpMore, htfVars,
                   stateFile, runHist, lastReplay, hardAbort, reconAfterAbort,
                   reach, reconStarted, texPass, inFlight, pdfStaged>>

\* mutant: an answer that does not end the prompt leads to the prompt again
AfterAnswerReprompt(resp, conflicts) ==
    IF resp = "y" /\ ~conflicts THEN "wfr_state" ELSE "wfr_prompt"

\* mutant: the answer 'y' is trusted
AfterAnswerTrusting(resp, conflicts) ==
    IF resp = "y" THEN "wfr_state" ELSE "wfr_top"

\* wait_for_resolution, lines 527-541: where an answer other than 'abort'
\* leads, conflicts being what check_conflicts() returns at line 539
AfterAnswer(resp, conflicts) ==
    IF resp = "y" /\ ~conflicts THEN "wfr_state" ELSE "wfr_top"

\* wait_for_resolution, lines 527-541: the manual-resolution prompt; while it
\* waits the human may have resolved paths (leaving u) or ended the replay by
\* hand (cp)
WfrPrompt(resp, u, cp) ==
    /\ UNCHANGED <<savedRun, lastArgs>>
    /\ wfrAns' = resp
    /\ quiet' = 0
    /\ pc = "wfr_prompt"
    /\ u \subseteq unresolved
    /\ cp => cpInProgress
    /\ gitHead' = gitHead
    /\ IF resp = "abort"
       THEN /\ cpInProgress' = AbortResult(cp, u).cp
            /\ unresolved' = AbortResult(cp, u).unres
            /\ abortInvoked' = TRUE
            /\ manualAborted' = branch
            /\ WfrReturn(FALSE)
       ELSE /\ cpInProgress' = cp
            /\ unresolved' = u
            /\ pc' = AfterAnswer(resp, check_conflicts(u))
            /\ UNCHANGED <<abortInvoked, manualAborted, wfrRet>>
    /\ UNCHANGED <<memButWfr, exitVars, hcpVars, htfVars, stateFile, starts,
                   initQueue, attempted, poppedEver, someFailed, restoreOk,
                   runMore, lastReplay, hardAbort, reconAfterAbort, attMore>>

\* wait_for_resolution, lines 544-553: still in cherry-pick state?
WfrState(resp) ==
    /\ UNCHANGED <<savedRun, lastArgs>>
    /\ wfrAns' = "none"
    /\ quiet' = IF ~cpInProgress THEN 0 ELSE quiet   \* the prompt of line 548
    /\ pc = "wfr_state"
    /\ cpInProgress => resp = "y"        \* no prompt while the replay is on
    /\ IF ~cpInProgress /\ resp # "y"
       THEN WfrReturn(FALSE) /\ UNCHANGED htfVars
       ELSE CallHtf("wfr") /\ wfrRet' = wfrRet
    /\ UNCHANGED <<memButWfr, exitVars, hcpVars, stateFile, gitVars, runHist,
                   attRest>>

\* mutant: a failed replay-continue always leads back to the loop
RetryAfterFailedContinueAlways(unres) == TRUE

\* wait_for_resolution, line 566: does a failed replay-continue lead back to
\* the top of the loop
RetryAfterFailedContinue(unres) == check_conflicts(unres)

\* wait_for_resolution, lines 553-571: after handle_tex_files, replay-continue
WfrAfterTex(resp, out, u) ==
    /\ UNCHANGED <<savedRun, wfrAns, lastArgs>>
    /\ quiet' = IF ~htfRet THEN 0 ELSE quiet   \* the prompt of line 556
    /\ pc = "wfr_after_tex"
    /\ htfRet' = TRUE
    /\ htfRet => resp = "y"             \* the prompt is shown after an abort only
    /\ IF ~htfRet /\ resp # "y"
       THEN /\ out = "stuck" /\ u = Paths   \* no git call: inputs not read
            /\ WfrReturn(FALSE)
            /\ UNCHANGED <<gitVars, lastReplay>>
       ELSE /\ GitContinue(out, u)
            /\ lastReplay' = IF out = "ok" THEN "cont_ok" ELSE "cont_fail"
            /\ IF ReplayOk(out)
               THEN WfrReturn(TRUE)
               ELSE IF RetryAfterFailedContinue(unresolved')
               THEN pc' = "wfr_top" /\ wfrRet' = wfrRet
               ELSE WfrReturn(FALSE)
    /\ UNCHANGED <<memButWfr, exitVars, hcpVars, htfCaller, htfTodo, htfPdf,
                   htfMore, stateFile, runHist, abortInvoked, hardAbort,
                   reconAfterAbort, attMore>>

(* ---------------------- main: outcome of a branch --------------------- *)
\* mutant: a failed checkout takes the arm of an already applied branch
ArmCheckoutSkipped(res) ==
    IF res.ok THEN "processed"
    ELSE IF res.reason = "conflict" THEN "conflict"
    ELSE IF res.reason \in {"already_applied", "checkout_failed"} THEN "skipped"
    ELSE "failed"

\* mutant: a replay failure without conflict takes the arm of an already
\* applied branch
ArmFailedSkipped(res) ==
    IF res.ok THEN "processed"
    ELSE IF res.reason = "conflict" THEN "conflict"
    ELSE IF res.reason \in {"already_applied", "failed"} THEN "skipped"
    ELSE "failed"

\* main, lines 721-740: which arm of the if/elif chain is taken
Arm(res) ==
    IF res.ok THEN "processed"
    ELSE IF res.reason = "conflict" THEN "conflict"
    ELSE IF res.reason = "already_applied" THEN "skipped"
    ELSE "failed"

\* main, lines 721-740: dispatch on the result of cherry_pick_commits
Dispatch ==
    /\ UNCHANGED savedRun
    /\ pc = "dispatch"
    /\ processed' = IF Arm(result) = "processed" THEN processed + 1 ELSE processed
    /\ skipped' = IF Arm(result) = "skipped" THEN skipped + 1 ELSE skipped
    /\ failed_branches' = IF Arm(result) = "failed"
                          THEN Append(failed_branches, branch)
                          ELSE failed_branches
    /\ someFailed' = (someFailed \/ Arm(result) = "failed")
    /\ pc' = IF Arm(result) = "conflict" THEN "wfr_top"
             ELSE IF Arm(result) = "failed" THEN "pop_failed"
             ELSE "pop"
    /\ UNCHANGED <<args, state, commits, original_branch, branches, failed, branch,
                   result, wfrRet, exitVars, hcpVars, htfVars, stateFile, gitVars,
                   starts, initQueue, attempted, poppedEver, manualAborted,
                   restoreOk, runMore, attHist>>

\* main, lines 725-732: the result of wait_for_resolution
WfrDone ==
    /\ UNCHANGED <<savedRun, lastArgs, quiet>>
    /\ wfrAns' = "none"
    /\ pc = "wfr_done"
    /\ processed' = IF wfrRet THEN processed + 1 ELSE processed
    /\ failed_branches' = IF wfrRet THEN failed_branches
                          ELSE Append(failed_branches, branch)
    /\ someFailed' = (someFailed \/ ~wfrRet)
    /\ pc' = IF wfrRet THEN "pop" ELSE "pop_failed"
    /\ UNCHANGED <<args, state, commits, original_branch, branches, skipped, failed,
                   branch, result, wfrRet, exitVars, hcpVars, htfVars, stateFile,
                   gitVars, starts, initQueue, attempted, poppedEver,
                   manualAborted, restoreOk, runMore, attRest>>

\* the branch in flight reached a failed terminal outcome: cherry_pick_commits
\* returned failure, and wait_for_resolution, when it was called, did too
EndedFailed == ~result.ok /\ (result.reason = "conflict" => ~wfrRet)

\* mutant: two elements are removed
Pop0Twice(bs) == IF Len(bs) > 1 THEN Tail(Tail(bs)) ELSE Tail(bs)

\* list.pop(0)
Pop0(bs) == Tail(bs)

\* main, lines 723, 727, 731-732, 735, 739-740: branches.pop(0), failed += 1
PopHead ==
    /\ UNCHANGED savedRun
    /\ pc \in {"pop", "pop_failed"}
    /\ branches' = Pop0(branches)
    /\ failed' = IF pc = "pop_failed" THEN failed + 1 ELSE failed
    /\ poppedEver' = poppedEver \cup {branch}
    /\ outcomes' = Append(outcomes, IF EndedFailed THEN "failed" ELSE "ok")
    /\ pc' = "loop"
    /\ branch' = ""
    /\ result' = NoResult
    /\ wfrRet' = FALSE
    /\ AttemptHistGone
    /\ UNCHANGED <<args, state, commits, original_branch, failed_branches,
                   processed, skipped, exitVars, hcpVars, htfVars, stateFile,
                   gitVars, starts, initQueue, attempted, someFailed,
                   manualAborted, restoreOk, ckFailed, loadedFailed, warned>>

(* --------------------------- main: RunComplete ------------------------ *)
\* main, line 742: cleanup_state
Cleanup ==
    /\ pc = "cleanup"
    /\ stateFile' = cleanup_state(stateFile)
    /\ savedRun' = <<>>
    /\ pc' = "restore"
    /\ UNCHANGED <<memVars, exitVars, hcpVars, htfVars, gitVars, runHist, attHist>>

\* main, lines 744-748: return to the original branch, result ignored
Restore(ok) ==
    /\ UNCHANGED savedRun
    /\ pc = "restore"
    /\ IF original_branch # PyNone /\ original_branch # ""
       THEN /\ gitHead' = IF ok THEN original_branch ELSE gitHead
            /\ restoreOk' = IF ok THEN "ok" ELSE "failed"
       ELSE UNCHANGED <<gitHead, restoreOk>>
    /\ pc' = "summary"
    /\ UNCHANGED <<memVars, exitVars, hcpVars, htfVars, stateFile, cpInProgress,
                   unresolved, starts, initQueue, attempted, poppedEver,
                   someFailed, manualAborted, runMore, attHist>>

\* mutant: a single failure is tolerated
ExitCodeOffByOne(f) == IF f > 1 THEN 1 ELSE 0

\* main, lines 759-760: the exit status
ExitCode(f) == IF f > 0 THEN 1 ELSE 0

\* main, lines 750-760: summary and exit status
Summary ==
    /\ UNCHANGED savedRun
    /\ pc = "summary"
    /\ Exit(ExitCode(failed), "complete")
    /\ UNCHANGED <<memVars, hcpVars, htfVars, stateFile, gitVars, runHist, attHist>>

(* ------------------------------ environment --------------------------- *)
\* the process is killed; only the state file and the repository survive
Kill ==
    /\ UNCHANGED savedRun
    /\ pc \notin {"off", "exit"}
    /\ starts < MaxStarts
    /\ pc' = "off"
    /\ args' = NoArgs
    /\ state' = <<>>
    /\ FreshMemory
    /\ exitStatus' = -1
    /\ exitKind' = "none"
    /\ UNCHANGED <<stateFile, gitVars, starts, poppedEver>>

YN == {"y", "n"}

\* the tool is started
Start ==
    \E n \in (-1)..MaxN, excl \in ExcludeChoices, resume \in BOOLEAN :
       Invoke(n, excl, resume)

\* a step of the running process
Run ==
    \/ \E resp \in YN : ResumePrompt(resp)
    \/ \E dirty \in BOOLEAN, resp \in YN : Precheck(dirty, resp)
    \/ \E resp \in YN : Confirm(resp)
    \/ LoopHead
    \/ SaveState
    \/ \E ok, cancel \in BOOLEAN : Checkout(ok, cancel)
    \/ \E outs \in [1..Len(commits) ->
                        {{original_branch}, {original_branch, branch}}] :
          Contains(outs)
    \/ \E out \in {"ok", "conflict", "error"}, u \in SUBSET Paths,
          texs \in SUBSET TexPaths : Pick(out, u, texs)
    \/ CpcOkRet
    \/ CpcAfterPdfs
    \/ \E out \in {"ok", "stuck", "next"}, u \in (SUBSET Paths) \ {{}} :
          CpcAfterTex(out, u)
    \/ HcpStart
    \/ \E texExists \in BOOLEAN : HcpNext(texExists)
    \/ \E ok \in BOOLEAN : HcpCompile(ok)
    \/ \E resp \in {"retry", "abort", "skip", "other"} : HcpFailPrompt(resp)
    \/ \E resp \in {"y", "n", "skip", "other"}, ok \in BOOLEAN :
          HcpReview(resp, ok)
    \/ \E texs \in SUBSET TexPaths : HtfStart(texs)
    \/ \E ok \in BOOLEAN : HtfNext(ok)
    \/ \E resp \in YN : HtfFailPrompt(resp)
    \/ \E resp \in {"y", "n", "retry"}, ok \in BOOLEAN : HtfReview(resp, ok)
    \/ \E resp \in YN, ok \in BOOLEAN : HtfFix(resp, ok)
    \/ \E resp \in YN, ok \in BOOLEAN : HtfCont(resp, ok)
    \/ WfrTop
    \/ WfrAfterPdfs
    \/ \E resp \in {"y", "n", "status", "abort"}, u \in SUBSET Paths,
          cp \in BOOLEAN : WfrPrompt(resp, u, cp)
    \/ \E resp \in YN : WfrState(resp)
    \/ \E resp \in YN, out \in {"ok", "stuck", "next"},
          u \in (SUBSET Paths) \ {{}} : WfrAfterTex(resp, out, u)
    \/ Dispatch
    \/ WfrDone
    \/ PopHead
    \/ Cleanup
    \/ \E ok \in BOOLEAN : Restore(ok)
    \/ Summary

Next ==
    \/ Start
    \/ Run
    \/ Kill

Spec == Init /\ [][Next]_vars

(* --------------------- a process that is let to run ------------------- *)
\* no process is killed
FairNext ==
    \/ Start
    \/ Run

\* answers and outcomes that leave the loop a prompt sits in: skip or abort
\* after a failed compile, accept or skip at the review of a rebuilt
\* artifact, accept with a staging that succeeds at the review of
\* handle_tex_files, resolved-and-clear or abort at the manual prompt, and a
\* replay-continue that does not stop at a further conflict
HcpFailDecisive == \E resp \in {"skip", "abort"} : HcpFailPrompt(resp)

HcpReviewDecisive == \E resp \in {"y", "skip"}, ok \in BOOLEAN : HcpReview(resp, ok)

HtfReviewDecisive == HtfReview("y", TRUE)

WfrPromptDecisive ==
    \/ \E cp \in BOOLEAN : WfrPrompt("y", {}, cp)
    \/ \E u \in SUBSET Paths, cp \in BOOLEAN : WfrPrompt("abort", u, cp)

WfrContinueEnds ==
    \E resp \in YN, out \in {"ok", "stuck"}, u \in (SUBSET Paths) \ {{}} :
       WfrAfterTex(resp, out, u)

\* every gateway call returns and every prompt is answered, in the end with
\* a decisive answer; the tool is not started again unless someone does it
Fairness ==
    /\ WF_vars(Run)
    /\ SF_vars(HcpFailDecisive)
    /\ SF_vars(HcpReviewDecisive)
    /\ SF_vars(HtfReviewDecisive)
    /\ SF_vars(WfrPromptDecisive)
    /\ SF_vars(WfrContinueEnds)

FairSpec == Init /\ [][FairNext]_vars /\ Fairness

(* ============================== properties ============================ *)
LoopPcs ==
    {"loop", "save", "cpc_checkout", "cpc_contains", "cpc_pick", "cpc_ok_ret",
     "cpc_after_pdfs", "cpc_after_tex", "hcp_start", "hcp_next", "hcp_compile",
     "hcp_failprompt", "hcp_review", "htf_start", "htf_next", "htf_failprompt",
     "htf_review", "htf_fix", "htf_cont", "wfr_top", "wfr_after_pdfs",
     "wfr_prompt", "wfr_state", "wfr_after_tex", "dispatch", "wfr_done", "pop",
     "pop_failed"}

\* positions between two attempts: the head of the queue is not yet attempted
BetweenPcs == {"loop", "save", "cpc_checkout"}

\* positions after the loop
AfterLoopPcs == {"cleanup", "restore", "summary"}

RunComplete == pc = "exit" /\ exitKind = "complete"

Crashed == pc = "exit" /\ exitKind = "crash"

Persisted == load_state(stateFile)[1]

InMemoryRun ==
    [commits |-> commits, original_branch |-> original_branch,
     branches |-> branches, failed_branches |-> failed_branches]

\* C1: in every process the branches given to cherry_pick_commits are, in order,
\* the branches of the queue the loop started with; between two attempts the
\* attempted branches followed by the queue are that initial queue, during an
\* attempt the branch in flight is still the head of the queue, and a run that
\* completes has attempted every branch of the initial queue exactly once,
\* whatever the outcomes were.
C1_QueueDiscipline ==
    /\ (pc \in BetweenPcs \cup AfterLoopPcs \/ RunComplete)
          => attempted \o branches = initQueue
    /\ (pc \in LoopPcs \ BetweenPcs \/ Crashed)
          => /\ attempted # <<>>
             /\ branches # <<>>
             /\ attempted[Len(attempted)] = Head(branches)
             /\ Front(attempted) \o branches = initQueue
    /\ (pc \in AfterLoopPcs \/ RunComplete) => branches = <<>> /\ attempted = initQueue

\* C1 witness: a completed run of two branches whose first branch failed
C1_Witness ==
    /\ RunComplete
    /\ Len(attempted) = 2
    /\ failed_branches = <<attempted[1]>>

\* C2: whenever cherry_pick_commits is about to check out or to replay, the
\* state file exists and holds the branch in flight as the first remaining
\* branch, with the current change set and failed-branch list.
C2_SavedBeforeAttempt ==
    pc \in {"cpc_checkout", "cpc_contains", "cpc_pick"}
       => /\ stateFile # <<>>
          /\ Persisted.remaining_branches = branches
          /\ Head(Persisted.remaining_branches) = branch
          /\ Persisted.commits = commits
          /\ Persisted.failed_branches = failed_branches

\* C2 witness: the attempt of a second branch after the first one failed
C2_Witness ==
    /\ pc = "cpc_checkout"
    /\ attempted # <<>>
    /\ failed_branches # <<>>
    /\ stateFile # <<>>

\* C3: at every point of the main loop the state file, once save_state has
\* written it, holds
\* the in-memory queue or that queue preceded by the branch attempted last,
\* and the in-memory failed list or that list without its last element; a file
\* exists as soon as a branch has been attempted.
C3_PersistedLagsByOne ==
    pc \in LoopPcs \cup {"cleanup"}
       => /\ attempted # <<>> => stateFile # <<>>
          /\ savedRun # <<>>
                => /\ \/ Persisted.remaining_branches = branches
                      \/ /\ attempted # <<>>
                         /\ Persisted.remaining_branches
                               = <<attempted[Len(attempted)]>> \o branches
                   /\ \/ Persisted.failed_branches = failed_branches
                      \/ /\ failed_branches # <<>>
                         /\ Persisted.failed_branches = Front(failed_branches)

\* C3 witness: a failed branch has just been popped, the file still has it
C3_Witness ==
    /\ pc = "loop"
    /\ branches # <<>>
    /\ stateFile # <<>>
    /\ attempted # <<>>
    /\ Persisted.remaining_branches = <<attempted[Len(attempted)]>> \o branches
    /\ failed_branches # <<>>
    /\ Persisted.failed_branches = Front(failed_branches)

\* C4: what load_state reads from the file is the run state save_state was
\* given (change set with hashes, subjects and bodies in order, originating
\* branch, queue, failed list), and a resumed process enters its loop with
\* exactly these values whatever -n and --exclude-branch it was started with.
C4_ResumeFidelity ==
    /\ savedRun # <<>>
          => /\ stateFile # <<>>
             /\ ResumedPlan(Persisted) = savedRun[1]
    /\ (pc = "loop" /\ attempted = <<>> /\ savedRun # <<>>)
          => InMemoryRun = savedRun[1]

\* C4 witness: a resumed process at its loop, started with -n and an
\* exclusion that disagree with the saved run
C4_Witness ==
    /\ pc = "loop"
    /\ attempted = <<>>
    /\ savedRun # <<>>
    /\ args.number # Len(commits)
    /\ args.exclude_branch = <<"b1">>
    /\ Head(branches) = "b1"

\* C5: a branch given to cherry_pick_commits was never popped before in this
\* run, also across a kill and a resume.
C5_NoReattemptAfterResume ==
    pc = "cpc_checkout" => branch \notin poppedEver

\* C6: a run that completes exits with status 1 when a branch ended failed in
\* it and with status 0 otherwise, whatever the final checkout returned.
C6_ExitStatus ==
    RunComplete => exitStatus = (IF someFailed THEN 1 ELSE 0)

\* C6 witness: a completed run of two branches, none failed, whose final
\* checkout failed
C6_Witness ==
    /\ RunComplete
    /\ Len(attempted) = 2
    /\ restoreOk = "failed"
    /\ ~someFailed
    /\ exitStatus = 0

C7_Inv ==
    /\ (pc \in {"restore", "summary"} \/ RunComplete)
          => stateFile = <<>> /\ branches = <<>>
    /\ (pc \in LoopPcs /\ attempted # <<>>) => stateFile # <<>>
    /\ pc = "resume_prompt" => stateFile # <<>>

\* C7: the state file is removed only by the step that follows the emptying
\* of the queue; after it no file exists (also when a branch failed), a file
\* exists while attempted branches remain in the queue, and a resume is only
\* offered when a file exists.
C7_StateFileLifetime ==
    /\ []C7_Inv
    /\ [][(stateFile # <<>> /\ stateFile' = <<>>)
             => (pc = "cleanup" /\ branches = <<>>)]_vars

\* C7 witness: a later invocation after a completed run finds no state file
\* and is not offered a resume
C7_Witness ==
    /\ pc = "precheck"
    /\ starts = 2
    /\ state = <<>>
    /\ stateFile = <<>>
    /\ poppedEver # {}

\* a branch is being recorded as success
RecordedSuccess ==
    \/ pc \in {"dispatch", "pop"} /\ result.ok /\ result.reason = "success"
    \/ pc \in {"wfr_done", "pop"} /\ wfrRet

\* C8: a branch is recorded as success only when the last replay or
\* replay-continue call of its attempt returned success, and then no
\* unresolved path remains and no replay is in progress.
C8_SuccessOnlyAfterReplayOk ==
    RecordedSuccess
       => /\ lastReplay \in {"pick_ok", "cont_ok"}
          /\ unresolved = {}
          /\ ~cpInProgress

\* C8 witness: wait_for_resolution returned success after a replay-continue
C8_Witness ==
    /\ pc = "wfr_done"
    /\ wfrRet
    /\ lastReplay = "cont_ok"

\* C9: once the reconciler has signalled a hard abort for a branch, the
\* controller only returns, aborts the replay and records the branch failed:
\* no further reconciliation and no further prompt for that branch.
C9_HardAbortEndsBranch ==
    hardAbort # "none"
       => /\ pc \in {"cpc_after_pdfs", "wfr_after_pdfs", "dispatch", "wfr_done",
                     "pop_failed"}
          /\ ~reconAfterAbort
          /\ pc \in {"wfr_done", "pop_failed"} => abortInvoked /\ ~cpInProgress

\* C10: after 'abort' at the manual-resolution prompt the replay is aborted,
\* the branch is appended to the failed list and popped, and a run that
\* completes has still attempted every branch of its queue.
C10_ManualAbort ==
    manualAborted # ""
       => /\ (pc = "wfr_done" /\ branch = manualAborted)
                => abortInvoked /\ ~cpInProgress /\ ~wfrRet
          /\ (pc = "pop_failed" /\ branch = manualAborted)
                => /\ failed_branches # <<>>
                   /\ failed_branches[Len(failed_branches)] = branch
          /\ branch # manualAborted
                => /\ manualAborted \in Range(failed_branches)
                   /\ manualAborted \notin Range(branches)
          /\ RunComplete => attempted = initQueue

\* C10 witness: a completed run of two branches whose first was aborted at
\* the manual prompt
C10_Witness ==
    /\ RunComplete
    /\ Len(initQueue) = 2
    /\ manualAborted = initQueue[1]
    /\ Len(attempted) = 2

\* C11: a branch whose checkout failed is given the outcome checkout_failed
\* with no reachability query, no replay, no replay-continue, no replay-abort
\* and no artifact pass; it is appended to the failed list and leaves the
\* queue, and a run that completes after it has attempted every branch of its
\* queue and exits with status 1.
C11_CheckoutFailed ==
    /\ (pc \in {"dispatch", "pop_failed"} /\ result.reason = "checkout_failed")
          => /\ branch = ckFailed
             /\ reach = "none"
             /\ lastReplay = "none"
             /\ ~abortInvoked
             /\ ~reconStarted
             /\ pc = "pop_failed"
                   => /\ failed_branches # <<>>
                      /\ failed_branches[Len(failed_branches)] = branch
    /\ (ckFailed # "" /\ branch # ckFailed)
          => /\ ckFailed \in Range(failed_branches)
             /\ ckFailed \notin Range(branches)
    /\ (RunComplete /\ ckFailed # "")
          => attempted = initQueue /\ exitStatus = 1

\* C11 witness: a completed run of two branches, the checkout of the first
\* failed and the second was processed
C11_Witness ==
    /\ RunComplete
    /\ Len(attempted) = 2
    /\ ckFailed = attempted[1]
    /\ failed_branches = <<attempted[1]>>
    /\ processed = 1
    /\ exitStatus = 1

\* C12: when git lists the branch as containing every change of the set,
\* cherry_pick_commits returns already_applied and the attempt has issued no
\* replay, no replay-continue and no replay-abort and entered no artifact
\* pass, so the tip of the branch is where the checkout found it.
C12_AlreadyApplied ==
    reach = "all"
       => /\ pc \in {"dispatch", "pop"}
          /\ result = [ok |-> TRUE, reason |-> "already_applied"]
          /\ lastReplay = "none"
          /\ ~abortInvoked
          /\ ~reconStarted
          /\ gitHead = branch

\* C12 witness: a branch that holds both changes of a set of two, listed
\* next to another branch
C12_Witness ==
    /\ pc = "pop"
    /\ reach = "all"
    /\ Len(commits) = 2
    /\ result.reason = "already_applied"

\* C13: a branch whose outcome is already_applied is counted in the
\* already-applied count, and the three counts sum to the number of branches
\* attempted in this process.
C13_SeparateCounts ==
    /\ (pc = "pop" /\ result.reason = "already_applied") => skipped >= 1
    /\ RunComplete => processed + skipped + failed = Len(attempted)

C14_Inv ==
    pc \in {"hcp_compile", "hcp_failprompt", "hcp_review"}
       => /\ hcpTodo # <<>>
          /\ IsPdf(Head(hcpTodo))
          /\ hcpTex = [Head(hcpTodo) EXCEPT !.ext = "tex"]
          /\ hcpTex \notin unresolved

\* C14: handle_conflicted_pdfs compiles and reviews an artifact only when its
\* same-base-name .tex exists and is not unresolved, and while it runs the
\* only path that leaves the unresolved set is the artifact under review.
C14_NoMasking ==
    /\ []C14_Inv
    /\ [][(pc \in {"hcp_start", "hcp_next", "hcp_compile", "hcp_failprompt",
                   "hcp_review"} /\ unresolved' # unresolved)
             => (pc = "hcp_review" /\ unresolved' = unresolved \ {Head(hcpTodo)})]_vars

\* C14 witness: the pass is over, the artifact whose source is unresolved too
\* was passed by and is still unresolved
C14_Witness ==
    /\ pc = "hcp_next"
    /\ hcpTodo = <<>>
    /\ hcpLeft = "none"
    /\ [base |-> "a", ext |-> "tex"] \in hcpSet
    /\ [base |-> "a", ext |-> "pdf"] \in unresolved

\* C15: handle_conflicted_pdfs goes on from an artifact that has a usable
\* source only on the answer 'y' or the answer 'skip'.
C15_LeaveOnlyOnAcceptOrSkip ==
    pc = "hcp_next" => hcpLeft \in {"none", "y", "skip"}

\* C16: a branch whose replay succeeded without conflict is recorded success
\* only when the artifact pass over its modified sources was not aborted.
C16_SuccessOnlyAfterApproval ==
    (pc \in {"dispatch", "pop"} /\ result.reason = "success"
        /\ lastReplay = "pick_ok")
       => texPass # "aborted"

\* C17: a failed replay goes to reconciliation exactly when check_conflicts()
\* or is_rebase_in_progress() holds; otherwise cherry_pick_commits returns
\* 'failed' with no artifact pass, no prompt, no replay-continue and no
\* replay-abort, and the branch is appended to the failed list.
C17_Classification ==
    /\ (pc = "hcp_start" /\ hcpCaller = "cpc")
          => /\ lastReplay = "pick_fail"
             /\ (check_conflicts(unresolved) \/ is_rebase_in_progress(cpInProgress))
    /\ (pc \in {"dispatch", "pop_failed"} /\ result.reason = "failed")
          => /\ lastReplay = "pick_fail"
             /\ ~check_conflicts(unresolved)
             /\ ~is_rebase_in_progress(cpInProgress)
             /\ ~reconStarted
             /\ ~abortInvoked
             /\ pc = "pop_failed"
                   => /\ failed_branches # <<>>
                      /\ failed_branches[Len(failed_branches)] = branch
    /\ (pc = "dispatch" /\ lastReplay = "pick_fail" /\ ~reconStarted)
          => result.reason = "failed"

\* C17 witness: the first of two branches failed without conflict and is
\* about to leave the queue
C17_Witness ==
    /\ pc = "pop_failed"
    /\ result.reason = "failed"
    /\ Len(branches) = 2
    /\ failed_branches = <<branch>>

RECURSIVE FailedOf(_, _)
\* the attempted branches whose recorded outcome is failed, in order
FailedOf(att, outs) ==
    IF att = <<>> \/ outs = <<>> THEN <<>>
    ELSE (IF Head(outs) = "failed" THEN <<Head(att)>> ELSE <<>>)
            \o FailedOf(Tail(att), Tail(outs))

\* C18: the failed list is the list taken from the state file followed by
\* the branches that ended failed in this process, in the order they were
\* attempted; no name occurs twice, and no branch that ended success or
\* already_applied in this process is in it.
C18_FailedByName ==
    /\ (pc \in BetweenPcs \cup AfterLoopPcs \/ RunComplete)
          => /\ Len(outcomes) = Len(attempted)
             /\ failed_branches = loadedFailed \o FailedOf(attempted, outcomes)
    /\ pc \in LoopPcs \ BetweenPcs
          => /\ Len(outcomes) + 1 = Len(attempted)
             /\ failed_branches
                   = loadedFailed \o FailedOf(attempted, outcomes)
                       \o (IF pc = "pop_failed" THEN <<branch>> ELSE <<>>)
             /\ pc = "pop_failed" => EndedFailed
             /\ pc = "pop" => ~EndedFailed
    /\ \A i, j \in 1..Len(failed_branches) :
          failed_branches[i] = failed_branches[j] => i = j
    /\ \A i \in 1..Len(outcomes) :
          outcomes[i] = "ok" => attempted[i] \notin Range(failed_branches)

\* C18 witness: a resumed run that took one failed branch from the file and
\* had another branch fail
C18_Witness ==
    /\ RunComplete
    /\ Len(loadedFailed) = 1
    /\ Len(failed_branches) = 2
    /\ outcomes = <<"failed">>

\* C19: the queue of a fresh run is the list of local branches without the
\* current branch and without every branch an exclusion pattern matches, in
\* git's order; a pattern holding '*', '?' or '[' is matched as a wildcard
\* against the whole name, any other pattern by equality.
C19_Selection ==
    (pc = "confirm" \/ (pc = "exit" /\ exitKind = "nobranches"))
       => branches
            = SelectSeq(GitBranchList,
                 LAMBDA b :
                    /\ b # original_branch
                    /\ \A i \in 1..Len(args.exclude_branch) :
                          LET pat == args.exclude_branch[i]
                          IN IF HasWildcard(pat)
                             THEN ~FnMatch(Chars(b), Chars(pat))
                             ELSE b # pat)

\* C19 witness: a pattern that matches nothing and a '?' pattern that drops b1
C19_Witness ==
    /\ pc = "confirm"
    /\ args.exclude_branch = <<"zz", "?1">>
    /\ original_branch = "main"
    /\ branches = <<"b2">>

\* C20: a process started with -n below 1 is at its exit with status 1 and
\* has loaded no state, and the step that starts it leaves the state file
\* and the repository as they were.
C20_RejectedFirst ==
    /\ [](args.number < 1
            => /\ pc = "exit" /\ exitKind = "rejected" /\ exitStatus = 1
               /\ state = <<>> /\ commits = <<>> /\ branches = <<>>)
    /\ [][(starts' # starts /\ args'.number < 1)
             => (stateFile' = stateFile /\ gitVars' = gitVars)]_vars

\* C20 witness: -n 0 with --resume while a state file exists
C20_Witness ==
    /\ pc = "exit"
    /\ exitKind = "rejected"
    /\ args.number = 0
    /\ args.resume
    /\ stateFile # <<>>

\* C21: the change set planned by a fresh run started with -n N, N >= 1, holds
\* min(N, available) changes, they are the most recent ones of the history and
\* are ordered oldest first; the warning about too few changes is printed
\* exactly when N exceeds what is available, and such a run does not end with
\* an error status.
C21_ChangeSet ==
    /\ (pc = "confirm" \/ (pc = "exit" /\ exitKind = "nobranches"))
          => /\ args.number >= 1
             /\ Len(commits) = Min(args.number, Len(History))
             /\ \A i \in 1..Len(commits) :
                   commits[i].hash
                      = History[Len(History) - Len(commits) + i].hash
             /\ warned <=> args.number > Len(History)
    /\ warned => exitStatus # 1

\* C21 witness: more changes asked for than the history holds
C21_Witness ==
    /\ pc = "confirm"
    /\ args.number = Len(History) + 1
    /\ warned
    /\ Len(commits) = Len(History)
    /\ commits[1].hash = "h1"

\* a state file that cannot be used as a run state: no JSON, or a JSON object
\* without remaining_branches or without original_branch
Unusable(file) ==
    /\ file # <<>>
    /\ \/ file = <<NotJson>>
       \/ "remaining_branches" \notin DOMAIN file[1]
       \/ "original_branch" \notin DOMAIN file[1]

\* C22: while the state file cannot be used as a run state, the process is
\* never offered a resume from it and never ends with an uncaught KeyError;
\* it goes on as a fresh run.
C22_UnusableStateNotFatal ==
    Unusable(stateFile)
       => /\ pc # "resume_prompt"
          /\ ~(pc = "exit" /\ exitKind = "keyerror" /\ exitStatus = 1)

C23_Inv ==
    /\ state # <<>>
          => /\ ("commit_hash" \in DOMAIN stateFile[1]
                   /\ "commits" \notin DOMAIN stateFile[1])
                => Get(state[1], "commits", <<>>)
                      = <<[hash |-> stateFile[1].commit_hash[2],
                           subject |-> "", body |-> ""]>>
             /\ "commits" \in DOMAIN stateFile[1]
                => state[1] = JsonLoad(stateFile[1])
    /\ (pc \in {"loop", "save"} /\ stateFile = <<LegacyFile>>)
          => /\ commits = <<[hash |-> "h1", subject |-> "", body |-> ""]>>
             /\ branches = <<"b2">>

\* C23: the state load_state returns for a file with commit_hash and without
\* commits has a commits list of one element holding that hash, the state it
\* returns for a file with commits is what json.load read; a process resumed
\* from the legacy file enters its loop with that one change, and the change
\* set never changes during the loop.
C23_LegacyUpgrade ==
    /\ []C23_Inv
    /\ [][(pc \in LoopPcs /\ pc' \in LoopPcs) => commits' = commits]_vars

\* C23 witness: the replay of the one change of the legacy file on the branch
\* the legacy file names
C23_Witness ==
    /\ pc = "cpc_pick"
    /\ commits = <<[hash |-> "h1", subject |-> "", body |-> ""]>>
    /\ branch = "b2"
    /\ original_branch = "main"

\* C24: when the reconciler returned without abort and no conflict is left,
\* cherry_pick_commits goes on to the tex pass and the replay-continue without
\* returning a conflict; a replay-continue that succeeds there makes it return
\* success; main then counts the branch as processed and pops it without
\* calling wait_for_resolution (unless the process is killed); and no branch for which cherry_pick_commits
\* returned success has had the manual-resolution prompt issued.
C24_ArtifactOnlyConflict ==
    /\ [](result.ok => ~prompted /\ pc \notin {"wfr_top", "wfr_prompt"})
    /\ [][(pc = "cpc_after_pdfs" /\ hcpRet /\ ~check_conflicts(unresolved)
              /\ pc' # "off")
             => (pc' = "htf_start" /\ htfCaller' = "cpc_conf")]_vars
    /\ [][(pc = "cpc_after_tex" /\ lastReplay' = "cont_ok")
             => (pc' = "dispatch"
                 /\ result' = [ok |-> TRUE, reason |-> "success"])]_vars
    /\ [][(pc = "dispatch" /\ result.ok /\ pc' # "off")
             => (pc' = "pop" /\ processed' = processed + 1)]_vars

\* C24 witness: a branch whose replay conflicted in the artifact only is
\* about to be popped as a success after the reconciler staged the rebuilt
\* artifact and the replay-continue succeeded, no manual prompt issued
C24_Witness ==
    /\ pc = "pop"
    /\ result = [ok |-> TRUE, reason |-> "success"]
    /\ lastReplay = "cont_ok"
    /\ pdfStaged
    /\ ~prompted
    /\ unresolved = {}

\* C25: an attempt that found a replay already in flight on its branch (the
\* in-progress marker present, the branch checked out) does not come back
\* from cherry_pick_commits as a checkout that git refused over the unmerged
\* paths of that replay, nor as a failed replay.
C25_InFlightIsConflict ==
    (pc = "dispatch" /\ inFlight)
       => /\ ~(result.reason = "checkout_failed" /\ unresolved # {})
          /\ result.reason # "failed"

\* C26: a branch that ends failed after a conflict leaves no replay in
\* progress when it is popped and the queue advances to the next branch.
C26_NoReplayLeftBehind ==
    (pc = "pop_failed" /\ result.reason = "conflict") => ~cpInProgress

\* C27: the manual-resolution prompt is only issued by the step that follows
\* a return of handle_conflicted_pdfs, while conflicts are left; the top of
\* the wait_for_resolution loop always calls handle_conflicted_pdfs; every
\* answer or failed replay-continue that stays in the loop leads to that top;
\* and a failed replay that is a conflict leads cherry_pick_commits to
\* handle_conflicted_pdfs.
C27_ReconcileFirst ==
    /\ [](pc = "wfr_prompt" => reconStarted /\ check_conflicts(unresolved))
    /\ [][pc' = "wfr_prompt" => (pc = "wfr_after_pdfs" /\ hcpRet)]_vars
    /\ [][(pc = "wfr_top" /\ pc' # "off")
             => (pc' = "hcp_start" /\ hcpCaller' = "wfr")]_vars
    /\ [][(pc \in {"wfr_prompt", "wfr_after_tex"}
              /\ pc' \notin {"off", "wfr_done", "wfr_state"})
             => pc' = "wfr_top"]_vars
    /\ [][(pc = "cpc_pick" /\ pc' \notin {"off", "dispatch", "htf_start"})
             => (pc' = "hcp_start" /\ hcpCaller' = "cpc")]_vars

\* C27 witness: the prompt of a second iteration, after a replay-continue
\* failed with new conflicts and the reconciler ran again
C27_Witness ==
    /\ pc = "wfr_prompt"
    /\ lastReplay = "cont_fail"
    /\ wfrRet = FALSE
    /\ [base |-> "a", ext |-> "pdf"] \in unresolved

HtfPcs == {"htf_start", "htf_next", "htf_failprompt", "htf_review", "htf_fix",
           "htf_cont"}

\* C28: from the test that precedes a replay-continue up to the
\* replay-continue no conflict is detected; after the answers 'n' and
\* 'status', and after the answer 'y' while conflicts are detected, the
\* controller is at the top of the loop; the step of the prompt never invokes
\* replay-continue, which is invoked by the steps after handle_tex_files only.
C28_ContinueOnlyWhenClean ==
    /\ []((pc \in {"wfr_state", "wfr_after_tex", "cpc_after_tex"}
             \/ (pc \in HtfPcs /\ htfCaller \in {"cpc_conf", "wfr"}))
            => ~check_conflicts(unresolved))
    /\ []((wfrAns \in {"n", "status"}
             \/ (wfrAns = "y" /\ check_conflicts(unresolved)))
            => pc = "wfr_top")
    /\ [][(pc = "wfr_prompt" /\ pc' # "off") => lastReplay' = lastReplay]_vars
    /\ [][(lastReplay' # lastReplay /\ lastReplay' \in {"cont_ok", "cont_fail"})
             => pc \in {"wfr_after_tex", "cpc_after_tex"}]_vars

\* C28 witness: the human answered 'y' while a conflict is still detected
C28_Witness ==
    /\ pc = "wfr_top"
    /\ wfrAns = "y"
    /\ check_conflicts(unresolved)

\* C29: a replay-continue of wait_for_resolution that fails leads back to the
\* top of the loop when check_conflicts() reports conflicts and otherwise
\* makes wait_for_resolution return False; a branch is popped as a success
\* after a conflict only when its last replay-continue succeeded.
C29_AfterFailedContinue ==
    /\ [][(pc = "wfr_after_tex" /\ lastReplay' = "cont_fail")
             => IF check_conflicts(unresolved')
                THEN pc' = "wfr_top"
                ELSE pc' = "wfr_done" /\ ~wfrRet']_vars
    /\ []((pc = "wfr_done" /\ lastReplay = "cont_fail") => ~wfrRet)
    /\ []((pc = "pop" /\ result.reason = "conflict") => lastReplay = "cont_ok")

\* C29 witness: back at the top of the loop after the manual prompt was
\* answered and the replay-continue failed with new conflicts
C29_Witness ==
    /\ pc = "wfr_top"
    /\ prompted
    /\ lastReplay = "cont_fail"
    /\ check_conflicts(unresolved)
    /\ wfrAns = "none"

\* C30: the artifact handle_tex_files has staged for the current source was
\* staged on the answer 'y' at the review prompt: an artifact whose last
\* review answer is 'n' is not staged.
C30_StagedOnlyWhenAccepted ==
    htfStagedOn \in {"none", "y"}

\* position of a change in the history of the source branch, oldest = 1
HistPos(h) == CHOOSE i \in 1..Len(History) : History[i].hash = h

\* a sequence of change identifiers runs from older to newer
OldestFirst(hs) ==
    \A i, j \in 1..Len(hs) : i < j => HistPos(hs[i]) < HistPos(hs[j])

\* C31: the replay is invoked with the identifier of the single change, or
\* with the range 'first^..last' of a longer change set; the change set is
\* oldest first in memory, in the state file the tool wrote (where it is the
\* change set of the run), and in the range of the invocation.
C31_ReplayArgs ==
    /\ lastArgs # <<>> =>
          /\ commits # <<>>
          /\ lastArgs[1] = "cherry-pick"
          /\ Len(commits) = 1 => lastArgs[2] = <<commits[1].hash>>
          /\ Len(commits) > 1 =>
                /\ lastArgs[2] = <<commits[1].hash, "^..", commits[Len(commits)].hash>>
                /\ HistPos(lastArgs[2][1]) < HistPos(lastArgs[2][3])
    /\ OldestFirst([i \in 1..Len(commits) |-> commits[i].hash])
    /\ savedRun # <<>> =>
          /\ OldestFirst([i \in 1..Len(stateFile[1].commits) |->
                            stateFile[1].commits[i].hash[2]])
          /\ pc \in LoopPcs =>
                [i \in 1..Len(stateFile[1].commits) |->
                    stateFile[1].commits[i].hash[2]]
                  = [i \in 1..Len(commits) |-> commits[i].hash]

\* C31 witness: a resumed process has invoked the replay of a change set of
\* two changes that it read from the state file
C31_Witness ==
    /\ pc = "dispatch"
    /\ starts = 2
    /\ Len(attempted) = 1
    /\ poppedEver # {}
    /\ lastArgs = <<"cherry-pick", <<"h1", "^..", "h2">>>>

\* C32: a resume is offered exactly when the state file can be used as a run
\* state, whatever the --resume flag; a process that ended because the human
\* declined has exit status 0 and, when it had loaded a state, the state file
\* still holds that state.
C32_ResumeOffer ==
    /\ pc = "resume_prompt" => stateFile # <<>> /\ ~Unusable(stateFile)
    /\ (pc = "precheck" /\ state = <<>>)
          => (stateFile = <<>> \/ Unusable(stateFile))
    /\ (pc = "exit" /\ exitKind = "declined")
          => /\ exitStatus = 0
             /\ state # <<>> => load_state(stateFile) = state

\* C33: when the run has completed, the failed count of the summary is the
\* number of names in the failed-branch list it prints, and the exit status
\* is 1 exactly when that list has a name; also after a resume.
C33_FailedCountMatchesList ==
    RunComplete
       => /\ failed = Len(failed_branches)
          /\ exitStatus = 1 <=> failed_branches # <<>>

\* one sequence is a suffix of another
IsSuffix(a, b) ==
    /\ Len(a) <= Len(b)
    /\ \A i \in 1..Len(a) : a[i] = b[Len(b) - Len(a) + i]

\* C34: a state file the tool has written has a remaining_branches list that
\* is not empty and, inside the loop, is a suffix of the queue the process
\* entered the loop with, a commits list that is not empty, and no branch in
\* both failed_branches and remaining_branches.
C34_WrittenStateWellFormed ==
    (savedRun # <<>> /\ stateFile # <<>>)
       => LET f == stateFile[1]
              remaining == SeqOfJson(f.remaining_branches)
              failedNames == SeqOfJson(f.failed_branches)
          IN /\ remaining # <<>>
             /\ pc \in LoopPcs => IsSuffix(remaining, initQueue)
             /\ Len(f.commits) > 0
             /\ \A i \in 1..Len(remaining), j \in 1..Len(failedNames) :
                    remaining[i] # failedNames[j]

\* positions at which the process waits for the human unconditionally
HumanInputPcs ==
    {"hcp_failprompt", "hcp_review", "htf_failprompt", "htf_review", "htf_fix",
     "htf_cont", "wfr_prompt"}

\* a step that begins a further iteration of the inner loop of
\* handle_conflicted_pdfs or of handle_tex_files is the answer to a prompt
InnerLoopsAsk ==
    /\ [][(pc' = "hcp_compile" /\ pc # "hcp_next") => pc \in HumanInputPcs]_vars
    /\ [][(pc' = "htf_review" /\ pc # "htf_next") => pc \in HumanInputPcs]_vars

\* C35 as stated: every iteration of the three loops that leads to a further
\* iteration has passed a human-input point; for wait_for_resolution, the
\* process is back at the top of the loop only after input given in the
\* iteration that ended.
C35_EveryIterationAsks ==
    /\ InnerLoopsAsk
    /\ [][(pc' = "wfr_top" /\ pc \in {"wfr_prompt", "wfr_after_tex"})
             => quiet' = 0]_vars

\* C35 amended: the inner loops ask in every iteration; an iteration of
\* wait_for_resolution that leads to a further one without input began
\* without conflicts and ended in a replay-continue that failed and left
\* conflicts, and the iteration after it asks.
C35_NoTwoSilentIterations ==
    /\ InnerLoopsAsk
    /\ [][(pc' = "wfr_top" /\ pc \in {"wfr_prompt", "wfr_after_tex"})
             => \/ quiet' = 0
                \/ /\ quiet' = 1
                   /\ pc = "wfr_after_tex"
                   /\ ~check_conflicts(unresolved)
                   /\ lastReplay' = "cont_fail"
                   /\ check_conflicts(unresolved')]_vars
    /\ [](pc = "wfr_top" => quiet <= 1)
    /\ [](quiet < QuietCap)

\* C35 witness: back at the top of the loop of wait_for_resolution after an
\* iteration without input
C35_Witness ==
    /\ pc = "wfr_top"
    /\ quiet = 1
    /\ lastReplay = "cont_fail"
    /\ check_conflicts(unresolved)

\* C36: a process that is in its loop and is let to run reaches the normal
\* end of the run, having attempted as many branches as the queue it entered
\* the loop with.
C36_RunCompletes ==
    /\ \A k \in 1..MaxStarts :
          (starts = k /\ pc \in LoopPcs) ~> (starts = k /\ RunComplete)
    /\ [](RunComplete => Len(attempted) = Len(initQueue))

====
